---------------------------- MODULE Spec2Model ----------------------------
(***************************************************************************)
(* Model of src/main.py: RaspberryMonitor (CPU, RAM, disk and network      *)
(* sampling), PowerMonitor (throttled bitfield decoding), OledDisplay      *)
(* (progress bars and text) and the raspberry_monitor() loop.              *)
(*                                                                         *)
(* Python values that the code tests with "is None", "not x", "+" or "&"   *)
(* are tagged records, so that a None, a str, a list and a number stay     *)
(* distinct and an operation on the wrong type is a TypeError.  Numbers    *)
(* are exact rationals in lowest terms (Python's floats are read as the    *)
(* reals they approximate).  A stripped text line is the sequence of its   *)
(* whitespace separated tokens, the empty line being << >>.                *)
(***************************************************************************)
EXTENDS Integers, Sequences, FiniteSets, TLC

VARIABLES
    prev_cpu_stats,   \* RaspberryMonitor.prev_cpu_stats
    prev_net_stats,   \* RaspberryMonitor.prev_net_stats
    mem_info,         \* RaspberryMonitor.mem_info
    net_interface,    \* RaspberryMonitor.net_interface
    last_throttled,   \* PowerMonitor.last_throttled
    pc,               \* position of raspberry_monitor() in its loop body
    cpu_temp, cpu_usage, ram_usage, disk_usage,      \* locals of the loop
    download_speed, upload_speed, throttled_value, power_status,
    canvas,           \* what update_display has drawn on the canvas image
    device,           \* the image the device shows
    called,           \* the method a caller invoked last
    input,            \* what that call read from the system
    before,           \* the stored state that call found
    ret,              \* what it returned
    exc               \* the exception that left the last call / the loop

monitorVars == <<prev_cpu_stats, prev_net_stats, mem_info, net_interface>>
loopVars == <<pc, cpu_temp, cpu_usage, ram_usage, disk_usage, download_speed,
              upload_speed, throttled_value, power_status, canvas, device>>
callVars == <<called, input, before, ret>>
vars == <<monitorVars, last_throttled, loopVars, callVars, exc>>

-----------------------------------------------------------------------------
(* Bounds of the model *)

MaxCounter == 1      \* each field of a /proc/stat sample is in 0..MaxCounter
MaxNetK == 3         \* a byte counter is 1024 * k for a k in 0..MaxNetK
MaxLow == 9          \* current-issue half of a throttled word is in 0..MaxLow
MaxHigh == 5         \* past-issue half of a throttled word is in 0..MaxHigh
MaxMemK == 4         \* a /proc/meminfo value is 500 * k kB for a k in 0..MaxMemK
MaxDisk == 2         \* the root filesystem has 0..MaxDisk blocks

-----------------------------------------------------------------------------
(* Python values *)

PyNone == [t |-> "None"]
Unbound == [t |-> "unbound"]     \* a local no statement has assigned yet
PyStr(s) == [t |-> "str", s |-> s]
PyList(v) == [t |-> "list", v |-> v]
PyTuple(v) == [t |-> "tuple", v |-> v]

Abs(x) == IF x < 0 THEN -x ELSE x

RECURSIVE GCD(_, _)
GCD(a, b) == IF b = 0 THEN a ELSE GCD(b, a % b)

\* the rational n/d (d # 0) in lowest terms with a positive denominator
Num(n, d) ==
    LET g == GCD(Abs(n), Abs(d))
        s == IF d < 0 THEN -1 ELSE 1
    IN  [t |-> "num", n |-> s * (n \div g) , d |-> s * (d \div g)]

PyInt(n) == Num(n, 1)
PySub(a, b) == Num(a.n * b.d - b.n * a.d, a.d * b.d)
PyMul(a, b) == Num(a.n * b.n, a.d * b.d)
PyDiv(a, b) == Num(a.n * b.d, a.d * b.n)     \* the caller excludes b = 0

\* bool(x): None, 0, '' and [] are false
Truthy(x) ==
    CASE x.t = "None" -> FALSE
      [] x.t = "num"  -> x.n # 0
      [] x.t = "str"  -> x.s # ""
      [] x.t = "list" -> x.v # << >>

\* the value of an expression whose evaluation raised TypeError
PyTypeError == [t |-> "TypeError"]

\* a + b: defined on two numbers, two strings or two lists
PyAdd(a, b) ==
    CASE a.t = "num" /\ b.t = "num"   -> Num(a.n * b.d + b.n * a.d, a.d * b.d)
      [] a.t = "str" /\ b.t = "str"   -> PyStr(a.s \o b.s)
      [] a.t = "list" /\ b.t = "list" -> PyList(a.v \o b.v)
      [] OTHER -> PyTypeError

RECURSIVE BitAnd(_, _)
\* a & b on non-negative integers
BitAnd(a, b) ==
    IF a = 0 \/ b = 0 THEN 0
    ELSE (a % 2) * (b % 2) + 2 * BitAnd(a \div 2, b \div 2)

NoExc == [type |-> "none", line |-> 0]
Raise(type, line) == [type |-> type, line |-> line]

RECURSIVE SumSeq(_)
SumSeq(s) == IF s = << >> THEN 0 ELSE Head(s) + SumSeq(Tail(s))

\* [f(a, b) for a, b in zip(s, t)] for subtraction: as long as the shorter
Zip(s, t) ==
    LET n == IF Len(s) < Len(t) THEN Len(s) ELSE Len(t)
    IN  [i \in 1..n |-> s[i] - t[i]]

-----------------------------------------------------------------------------
(* Files *)

IOError == [ok |-> FALSE]
File(line) == [ok |-> TRUE, line |-> line]

\* get_first_line: the stripped first line, '' when the file cannot be read
get_first_line(file) == IF file.ok THEN file.line ELSE << >>

\* line.split()[1:]
SplitTail(line) == IF line = << >> THEN << >> ELSE Tail(line)

-----------------------------------------------------------------------------
(* RaspberryMonitor.get_cpu_usage *)

NFields == 4         \* user, nice, system, idle: the fields the code indexes
CpuSamples == [1..NFields -> 0..MaxCounter]
ProcStatFiles == {IOError} \cup {File(<<"cpu">> \o s) : s \in CpuSamples}

\* a slip that would leave the baseline of the first call in place
get_cpu_usage_keepBaseline(file, prev) ==
    LET line == get_first_line(file)
        cpu_stats == SplitTail(line)
    IN  IF ~Truthy(prev)
        THEN [ret |-> PyInt(0), exc |-> NoExc, prev_cpu_stats |-> PyList(cpu_stats)]
        ELSE LET deltas == Zip(cpu_stats, prev.v)
                 total_time == SumSeq(deltas)
             IN  IF Len(deltas) < 4
                 THEN [ret |-> PyNone, exc |-> Raise("IndexError", 79),
                       prev_cpu_stats |-> prev]
                 ELSE [ret |-> IF total_time # 0
                               THEN PyMul(PySub(PyInt(1),
                                          PyDiv(PyInt(deltas[4]), PyInt(total_time))),
                                          PyInt(100))
                               ELSE PyInt(0),
                       exc |-> NoExc,
                       prev_cpu_stats |-> prev]

\* a slip that would take the system field (index 2) for the idle field
get_cpu_usage_wrongField(file, prev) ==
    LET line == get_first_line(file)
        cpu_stats == SplitTail(line)
    IN  IF ~Truthy(prev)
        THEN [ret |-> PyInt(0), exc |-> NoExc, prev_cpu_stats |-> PyList(cpu_stats)]
        ELSE LET deltas == Zip(cpu_stats, prev.v)
                 total_time == SumSeq(deltas)
             IN  IF Len(deltas) < 4
                 THEN [ret |-> PyNone, exc |-> Raise("IndexError", 79),
                       prev_cpu_stats |-> prev]
                 ELSE [ret |-> IF total_time # 0
                               THEN PyMul(PySub(PyInt(1),
                                          PyDiv(PyInt(deltas[3]), PyInt(total_time))),
                                          PyInt(100))
                               ELSE PyInt(0),
                       exc |-> NoExc,
                       prev_cpu_stats |-> PyList(cpu_stats)]

\* get_cpu_usage on the content of /proc/stat and the stored previous
\* sample: what it returns or raises, and the previous sample it leaves.
\* deltas[3] (0-based) is deltas[4] here; it raises IndexError, before the
\* previous sample is overwritten, when fewer than 4 deltas exist.
get_cpu_usage(file, prev) ==
    LET line == get_first_line(file)
        cpu_stats == SplitTail(line)
    IN  IF ~Truthy(prev)
        THEN [ret |-> PyInt(0), exc |-> NoExc, prev_cpu_stats |-> PyList(cpu_stats)]
        ELSE LET deltas == Zip(cpu_stats, prev.v)
                 total_time == SumSeq(deltas)
             IN  IF Len(deltas) < 4
                 THEN [ret |-> PyNone, exc |-> Raise("IndexError", 79),
                       prev_cpu_stats |-> prev]
                 ELSE [ret |-> IF total_time # 0
                               THEN PyMul(PySub(PyInt(1),
                                          PyDiv(PyInt(deltas[4]), PyInt(total_time))),
                                          PyInt(100))
                               ELSE PyInt(0),
                       exc |-> NoExc,
                       prev_cpu_stats |-> PyList(cpu_stats)]

-----------------------------------------------------------------------------
(* RaspberryMonitor.get_active_network_interface, get_network_speed *)

\* Outcomes of subprocess.run(['ip', 'route', 'get', '1']): the call raises
\* (no ip binary), or returns a return code and the lines it printed.
RouteRaises == [raised |-> TRUE]
RouteResult(rc, lines) == [raised |-> FALSE, returncode |-> rc, stdout |-> lines]

RouteOutcomes ==
    { RouteRaises,
      RouteResult(2, << >>),
      RouteResult(0, << >>),
      RouteResult(0, << <<"1.0.0.0", "via", "192.168.0.1", "dev", "eth0">> >>),
      RouteResult(0, << <<"1.0.0.0", "via", "192.168.0.1", "dev", "wlan0">> >>),
      RouteResult(0, << <<"1.0.0.0", "via", "192.168.0.1", "dev">> >>),
      RouteResult(0, << <<"1.0.0.0", "device", "eth0">> >>) }

\* 'dev' in line: a substring test on the text of the line
HasDev(line) == \E i \in 1..Len(line) : line[i] \in {"dev", "device"}

\* parts.index('dev'): the first position of the token 'dev', 0 when absent
\* (Python raises ValueError there)
IndexOfDev(parts) ==
    IF \E i \in 1..Len(parts) : parts[i] = "dev"
    THEN CHOOSE i \in 1..Len(parts) :
            parts[i] = "dev" /\ \A j \in 1..(i - 1) : parts[j] # "dev"
    ELSE 0

\* The interface named after 'dev' on the first line holding 'dev'; 'wlan0'
\* when the command fails, prints no such line, or the lookup raises
\* (every exception is caught at line 37).
get_active_network_interface(route) ==
    IF route.raised \/ route.returncode # 0
    THEN "wlan0"
    ELSE LET hits == {i \in 1..Len(route.stdout) : HasDev(route.stdout[i])}
         IN  IF hits = {}
             THEN "wlan0"
             ELSE LET parts == route.stdout[CHOOSE i \in hits : \A j \in hits : i <= j]
                      k == IndexOfDev(parts)
                  IN  IF k = 0 \/ k + 1 > Len(parts) THEN "wlan0" ELSE parts[k + 1]

NetValues == {1024 * k : k \in 0..MaxNetK}
CounterFiles == {IOError} \cup {File(<<n>>) : n \in NetValues}

\* a slip that would store the new counters only when they grew
get_network_speed_storeOnGrowth(route, rxfile, txfile, prev) ==
    LET iface == get_active_network_interface(route)
        rx_line == get_first_line(rxfile)
        tx_line == get_first_line(txfile)
    IN  IF rx_line = << >>
        THEN [ret |-> PyNone, exc |-> Raise("ValueError", 46),
              prev_net_stats |-> prev, net_interface |-> iface]
        ELSE IF tx_line = << >>
        THEN [ret |-> PyNone, exc |-> Raise("ValueError", 47),
              prev_net_stats |-> prev, net_interface |-> iface]
        ELSE LET rx_bytes == rx_line[1]
                 tx_bytes == tx_line[1]
             IN  [ret |-> PyTuple(<<PyDiv(PyInt(rx_bytes - prev.rx), PyInt(1024)),
                                    PyDiv(PyInt(tx_bytes - prev.tx), PyInt(1024))>>),
                  exc |-> NoExc,
                  prev_net_stats |-> IF rx_bytes > prev.rx \/ tx_bytes > prev.tx
                                     THEN [rx |-> rx_bytes, tx |-> tx_bytes]
                                     ELSE prev,
                  net_interface |-> iface]

\* get_network_speed on the outcome of the route lookup, the content of the
\* rx_bytes and tx_bytes files of the interface it resolves, and the stored
\* previous counters.  int('') raises ValueError: the unreadable file gives
\* '' (get_first_line), and the call leaves before prev_net_stats is touched.
get_network_speed(route, rxfile, txfile, prev) ==
    LET iface == get_active_network_interface(route)
        rx_line == get_first_line(rxfile)
        tx_line == get_first_line(txfile)
    IN  IF rx_line = << >>
        THEN [ret |-> PyNone, exc |-> Raise("ValueError", 46),
              prev_net_stats |-> prev, net_interface |-> iface]
        ELSE IF tx_line = << >>
        THEN [ret |-> PyNone, exc |-> Raise("ValueError", 47),
              prev_net_stats |-> prev, net_interface |-> iface]
        ELSE LET rx_bytes == rx_line[1]
                 tx_bytes == tx_line[1]
             IN  [ret |-> PyTuple(<<PyDiv(PyInt(rx_bytes - prev.rx), PyInt(1024)),
                                    PyDiv(PyInt(tx_bytes - prev.tx), PyInt(1024))>>),
                  exc |-> NoExc,
                  prev_net_stats |-> [rx |-> rx_bytes, tx |-> tx_bytes],
                  net_interface |-> iface]

-----------------------------------------------------------------------------
(* RaspberryMonitor.get_memory_info, get_ram_usage, get_disk_usage *)

EmptyDict == << >>

\* d.get(key, default)
DictGet(d, key, default) == IF key \in DOMAIN d THEN d[key] ELSE default

\* key.rstrip(':')
RStripColon(key) ==
    CASE key = "MemTotal:" -> "MemTotal"
      [] key = "MemAvailable:" -> "MemAvailable"
      [] OTHER -> key

RECURSIVE ParseMemLines(_, _)
\* the loop of get_memory_info over the lines "<key>: <value> kB"
ParseMemLines(lines, memory_info) ==
    IF lines = << >> THEN memory_info
    ELSE LET line == Head(lines)
             key == RStripColon(line[1])
         IN  ParseMemLines(Tail(lines),
                 [k \in DOMAIN memory_info \cup {key} |->
                     IF k = key THEN line[2] ELSE memory_info[k]])

\* get_memory_info: {} when /proc/meminfo cannot be opened
get_memory_info(file) ==
    IF file.ok THEN ParseMemLines(file.line, EmptyDict) ELSE EmptyDict

MemValues == {500 * k : k \in 0..MaxMemK}
MemLines ==
    {<< >>} \cup {<< <<"MemTotal:", t, "kB">> >> : t \in MemValues}
            \cup {<< <<"MemAvailable:", a, "kB">> >> : a \in MemValues}
            \cup {<< <<"MemTotal:", t, "kB">>, <<"MemAvailable:", a, "kB">> >> :
                      t \in MemValues, a \in MemValues}
MemInfoFiles == {IOError} \cup {File(l) : l \in MemLines}

\* a slip that would read /proc/meminfo again on every call; the value
\* MemAvailable holds by then is any of MemValues
get_ram_usage_reread(mem) ==
    LET total_memory == DictGet(mem, "MemTotal", 1)
    IN  IF total_memory = 0
        THEN [ret |-> PyNone, exc |-> Raise("ZeroDivisionError", 111), mem_info |-> mem]
        ELSE LET a == CHOOSE v \in MemValues : v # DictGet(mem, "MemAvailable", 0)
             IN  [ret |-> PyMul(PyDiv(PyInt(total_memory - a), PyInt(total_memory)),
                                PyInt(100)),
                  exc |-> NoExc,
                  mem_info |-> [k \in DOMAIN mem \cup {"MemAvailable"} |->
                                   IF k = "MemAvailable" THEN a ELSE mem[k]]]

\* get_ram_usage on the stored mem_info: the default 1 stands in for a
\* missing MemTotal only; a MemTotal of 0 divides by zero at line 111.
get_ram_usage(mem) ==
    LET total_memory == DictGet(mem, "MemTotal", 1)
        available_memory == DictGet(mem, "MemAvailable", 0)
        used_memory == total_memory - available_memory
    IN  IF total_memory = 0
        THEN [ret |-> PyNone, exc |-> Raise("ZeroDivisionError", 111), mem_info |-> mem]
        ELSE [ret |-> PyMul(PyDiv(PyInt(used_memory), PyInt(total_memory)), PyInt(100)),
              exc |-> NoExc,
              mem_info |-> mem]

\* Outcomes of shutil.disk_usage("/"): it raises, or returns (total, used, free)
DiskRaises == [raised |-> TRUE]
DiskResult(total, used) == [raised |-> FALSE, total |-> total, used |-> used]
DiskOutcomes ==
    {DiskRaises} \cup {DiskResult(t, u) : t \in 0..MaxDisk, u \in 0..MaxDisk}

\* a slip that would report a failed query as 0 percent
get_disk_usage_zeroOnError(du) ==
    IF du.raised THEN PyInt(0)
    ELSE IF du.total # 0
         THEN PyMul(PyDiv(PyInt(du.used), PyInt(du.total)), PyInt(100))
         ELSE PyInt(0)

\* get_disk_usage: None when the query raises
get_disk_usage(du) ==
    IF du.raised THEN PyNone
    ELSE IF du.total # 0
         THEN PyMul(PyDiv(PyInt(du.used), PyInt(du.total)), PyInt(100))
         ELSE PyInt(0)

-----------------------------------------------------------------------------
(* PowerMonitor *)

\* Outcomes of subprocess.run(['vcgencmd', 'get_throttled']): the call
\* raises, or returns a return code and its output, given as the parts
\* stdout.split('=') yields; the part after '=' is given as the number its
\* text ("0x50005") denotes, which is what int(text, 0) returns.
VcgencmdRaises == [raised |-> TRUE]
VcgencmdResult(rc, parts) == [raised |-> FALSE, returncode |-> rc, stdout |-> parts]

ThrottledWords == {lo + 65536 * hi : lo \in 0..MaxLow, hi \in 0..MaxHigh}

VcgencmdOutcomes ==
    {VcgencmdRaises, VcgencmdResult(1, <<"">>), VcgencmdResult(0, <<"">>)}
        \cup {VcgencmdResult(0, <<"throttled", w>>) : w \in ThrottledWords}

\* get_throttled_status: the word, or None when the command fails or its
\* output has no '=' (the IndexError is caught at line 170)
get_throttled_status(cmd) ==
    IF cmd.raised \/ cmd.returncode # 0 \/ Len(cmd.stdout) < 2
    THEN PyNone
    ELSE PyInt(cmd.stdout[2])

\* a slip that would test the bits from the least urgent to the most
analyze_throttled_reversed(value) ==
    IF value.t # "num"
    THEN [ret |-> PyNone, exc |-> Raise("TypeError", 178)]
    ELSE LET v == value.n
         IN  [ret |-> IF BitAnd(v, 8) # 0 THEN PyStr("Temp limit")
                      ELSE IF BitAnd(v, 4) # 0 THEN PyStr("Throttled")
                      ELSE IF BitAnd(v, 2) # 0 THEN PyStr("Freq cap")
                      ELSE IF BitAnd(v, 1) # 0 THEN PyStr("Undervolt")
                      ELSE PyStr("OK"),
              exc |-> NoExc]

\* analyze_throttled: None & 0x1 raises TypeError
analyze_throttled(value) ==
    IF value.t # "num"
    THEN [ret |-> PyNone, exc |-> Raise("TypeError", 178)]
    ELSE LET v == value.n
         IN  [ret |-> IF BitAnd(v, 1) # 0 THEN PyStr("Undervolt")
                      ELSE IF BitAnd(v, 2) # 0 THEN PyStr("Freq cap")
                      ELSE IF BitAnd(v, 4) # 0 THEN PyStr("Throttled")
                      ELSE IF BitAnd(v, 8) # 0 THEN PyStr("Temp limit")
                      ELSE PyStr("OK"),
              exc |-> NoExc]

\* "; ".join(x): of a str x, its characters joined; of a list, its items
JoinSemicolon(x) ==
    CASE x = PyStr("Undervolt")  -> PyStr("U; n; d; e; r; v; o; l; t")
      [] x = PyStr("Freq cap")   -> PyStr("F; r; e; q;  ; c; a; p")
      [] x = PyStr("Throttled")  -> PyStr("T; h; r; o; t; t; l; e; d")
      [] x = PyStr("Temp limit") -> PyStr("T; e; m; p;  ; l; i; m; i; t")
      [] x = PyStr("OK")         -> PyStr("O; K")
      [] OTHER                   -> PyTypeError

\* current_issues + (["Past Issues:"] + past_issues if past_issues else [])
CombinedIssues(current_issues, past_issues) ==
    LET right == IF Truthy(past_issues)
                 THEN PyAdd(PyList(<<"Past Issues:">>), past_issues)
                 ELSE PyList(<< >>)
    IN  IF right = PyTypeError THEN PyTypeError ELSE PyAdd(current_issues, right)

\* a slip that would test the stored word for falsiness, as get_cpu_usage
\* does, instead of "is None"
get_power_status_falsy(cmd, last) ==
    LET word == get_throttled_status(cmd)
    IN  IF word = PyNone
        THEN [ret |-> PyStr("Unable to determine power status"), exc |-> NoExc,
              last_throttled |-> last]
        ELSE IF ~Truthy(last)
        THEN [ret |-> PyStr("Checking status"), exc |-> NoExc,
              last_throttled |-> word]
        ELSE [ret |-> PyNone, exc |-> Raise("TypeError", 153),
              last_throttled |-> word]

\* get_power_status on the outcome of vcgencmd and the stored word.  After
\* the cold-start branches the stored word is the word read (lines 147-149
\* overwrite it when it differs); analyze_throttled returns a str, so line
\* 153 adds a list and a str and raises TypeError before line 157.
get_power_status(cmd, last) ==
    LET word == get_throttled_status(cmd)
    IN  IF word = PyNone
        THEN [ret |-> PyStr("Unable to determine power status"), exc |-> NoExc,
              last_throttled |-> last]
        ELSE IF last = PyNone
        THEN [ret |-> PyStr("Checking status"), exc |-> NoExc,
              last_throttled |-> word]
        ELSE LET current_issues ==
                     analyze_throttled(PyInt(BitAnd(word.n, 65535))).ret
                 past_issues ==
                     analyze_throttled(PyInt(word.n \div 65536)).ret
                 combined_issues == CombinedIssues(current_issues, past_issues)
             IN  IF combined_issues = PyTypeError
                 THEN [ret |-> PyNone, exc |-> Raise("TypeError", 153),
                       last_throttled |-> word]
                 ELSE [ret |-> IF Truthy(current_issues)
                               THEN JoinSemicolon(current_issues)
                               ELSE PyStr("OK"),
                       exc |-> NoExc,
                       last_throttled |-> word]

-----------------------------------------------------------------------------
(* OledDisplay *)

BAR_WIDTH == 62
BAR_HEIGHT == 7

\* int(x) of a number: truncation towards zero
PyTrunc(x) == IF x.n >= 0 THEN x.n \div x.d ELSE -((-x.n) \div x.d)

\* the integer nearest to x, the even one of two equally near
RoundHalfEven(x) ==
    LET q == x.n \div x.d
        r == x.n - q * x.d
    IN  IF 2 * r < x.d THEN q
        ELSE IF 2 * r > x.d THEN q + 1
        ELSE IF q % 2 = 0 THEN q ELSE q + 1

\* f"{x:.0f}": a negative x that rounds to zero prints as "-0"
Format0f(x) ==
    LET k == RoundHalfEven(x)
    IN  IF k = 0 /\ x.n < 0 THEN "-0" ELSE ToString(k)

\* f"{x:.1f}"
Format1f(x) ==
    LET k == RoundHalfEven(PyMul(x, PyInt(10)))
        a == Abs(k)
    IN  (IF x.n < 0 THEN "-" ELSE "") \o ToString(a \div 10) \o "." \o ToString(a % 10)

Rectangle(x0, y0, x1, y1, fill) ==
    [op |-> "rectangle", x0 |-> x0, y0 |-> y0, x1 |-> x1, y1 |-> y1, fill |-> fill]
Text(x, y, text) == [op |-> "text", x |-> x, y |-> y, text |-> text]

\* draw_progress_bar: the two rectangles it draws, or TypeError when the
\* percentage is None (BAR_WIDTH * None at line 210)
draw_progress_bar(x, y, percentage) ==
    IF percentage.t # "num"
    THEN [drawn |-> << >>, exc |-> Raise("TypeError", 210)]
    ELSE LET fill_width == PyTrunc(PyDiv(PyMul(PyInt(BAR_WIDTH), percentage), PyInt(100)))
         IN  [drawn |-> << Rectangle(x, y, x + BAR_WIDTH, y + BAR_HEIGHT, FALSE),
                           Rectangle(x, y, x + fill_width, y + BAR_HEIGHT, TRUE) >>,
              exc |-> NoExc]

\* update_display: what it draws on the canvas, in order, up to the first
\* exception; the canvas reaches the device only when the with-block ends
\* without one.  The loop passes numbers for every argument but
\* disk_usage, which may be None, and a str for power_status.
update_display(temp, cpu, ram, disk, download, power, shown) ==
    LET b1 == draw_progress_bar(30, 2, cpu)
        b2 == draw_progress_bar(30, 14, ram)
        b3 == draw_progress_bar(30, 26, disk)
    IN  IF b1.exc # NoExc THEN [canvas |-> << >>, device |-> shown, exc |-> b1.exc]
        ELSE IF b2.exc # NoExc
        THEN [canvas |-> b1.drawn, device |-> shown, exc |-> b2.exc]
        ELSE IF b3.exc # NoExc
        THEN [canvas |-> b1.drawn \o b2.drawn, device |-> shown, exc |-> b3.exc]
        ELSE LET image == b1.drawn \o b2.drawn \o b3.drawn \o
                   << Text(0, 0, "CPU"),
                      Text(100, 0, Format0f(cpu) \o " %"),
                      Text(0, 12, "RAM"),
                      Text(100, 12, Format0f(ram) \o " %"),
                      Text(0, 24, "Disk"),
                      Text(100, 24, Format0f(disk) \o " %"),
                      Text(0, 39, "DL:" \o Format0f(download) \o " KB/s"),
                      Text(81, 39, "T:" \o Format1f(temp) \o " C"),
                      Text(0, 54, "Power: " \o power.s) >>
             IN  [canvas |-> image, device |-> image, exc |-> NoExc]

-----------------------------------------------------------------------------
(* Initial states: the objects as their constructors leave them *)

\* the locals of raspberry_monitor() before its loop body has run, and an
\* OledDisplay that has shown nothing yet
InitLoopVars ==
    /\ pc = "start"
    /\ cpu_temp = Unbound /\ cpu_usage = Unbound /\ ram_usage = Unbound
    /\ disk_usage = Unbound /\ download_speed = Unbound /\ upload_speed = Unbound
    /\ throttled_value = Unbound /\ power_status = Unbound
    /\ canvas = << >> /\ device = << >>

NoInput == [read |-> "none"]

InitCallVars ==
    /\ called = "none" /\ input = NoInput /\ before = PyNone /\ ret = PyNone

\* RaspberryMonitor.__init__ and PowerMonitor.__init__ ; m is the result of
\* get_memory_info and i that of get_active_network_interface
InitObjects(m, i) ==
    /\ prev_cpu_stats = PyNone
    /\ prev_net_stats = [rx |-> 0, tx |-> 0]
    /\ mem_info = m
    /\ net_interface = i
    /\ last_throttled = PyNone
    /\ exc = NoExc

-----------------------------------------------------------------------------
(* SpecCpu: a caller invoking get_cpu_usage on a fresh monitor *)

DefaultInterface == "wlan0"

InitCpu == InitObjects(EmptyDict, DefaultInterface) /\ InitLoopVars /\ InitCallVars

CallGetCpuUsage ==
    \E file \in ProcStatFiles :
        LET r == get_cpu_usage(file, prev_cpu_stats)
        IN  /\ prev_cpu_stats' = r.prev_cpu_stats
            /\ called' = "get_cpu_usage"
            /\ input' = file
            /\ before' = prev_cpu_stats
            /\ ret' = r.ret
            /\ exc' = r.exc
            /\ UNCHANGED <<prev_net_stats, mem_info, net_interface, last_throttled,
                           loopVars>>

NextCpu == CallGetCpuUsage

SpecCpu == InitCpu /\ [][NextCpu]_vars

\* the sample a call read, as the list get_cpu_usage builds from it
SampleRead == PyList(SplitTail(get_first_line(input)))

\* C2: the first get_cpu_usage call on a fresh monitor returns 0 and stores
\* the sample it read; a call that reads a sample identical to the stored
\* one returns 0; after every call that returns, prev_cpu_stats is the
\* sample that call read.
C2_ColdStartAndBaseline ==
    called = "get_cpu_usage" =>
        /\ before = PyNone =>
              ret = PyInt(0) /\ exc = NoExc /\ prev_cpu_stats = SampleRead
        /\ before = SampleRead => ret = PyInt(0) /\ exc = NoExc
        /\ exc = NoExc => prev_cpu_stats = SampleRead

\* a call after the first one read the very sample the baseline holds,
\* a sample that is not all zero, and returned 0
C2_Witness ==
    /\ called = "get_cpu_usage" /\ input.ok
    /\ before = SampleRead /\ before.v[1] > 0
    /\ ret = PyInt(0) /\ exc = NoExc /\ prev_cpu_stats = SampleRead

\* two consecutive well-formed samples: the same length of at least 4 and
\* no counter decreasing
WellFormedPair ==
    /\ called = "get_cpu_usage" /\ input.ok
    /\ before.t = "list" /\ Len(before.v) >= 4 /\ Len(before.v) = Len(SampleRead.v)
    /\ \A i \in 1..Len(before.v) : before.v[i] <= SampleRead.v[i]

idleDelta == SampleRead.v[4] - before.v[4]
totalDelta == SumSeq(SampleRead.v) - SumSeq(before.v)

\* C3: for two consecutive well-formed samples get_cpu_usage returns
\* (1 - idleDelta/totalDelta) * 100, that is 100 * (totalDelta - idleDelta)
\* / totalDelta; the result is in [0, 100]; it is 0 when totalDelta = 0, 0
\* when only idle increased, 100 when idle stood still and another field
\* increased; and the call raises nothing.
C3_UsageFormula ==
    WellFormedPair =>
        /\ exc = NoExc
        /\ ret.t = "num"
        /\ totalDelta = 0 => ret = PyInt(0)
        /\ totalDelta # 0 => ret = Num(100 * (totalDelta - idleDelta), totalDelta)
        /\ 0 <= ret.n /\ ret.n <= 100 * ret.d
        /\ (idleDelta > 0 /\ totalDelta = idleDelta) => ret = PyInt(0)
        /\ (idleDelta = 0 /\ totalDelta > 0) => ret = PyInt(100)

\* user and idle both advanced by one: 50 percent
C3_Witness ==
    /\ WellFormedPair
    /\ idleDelta = 1 /\ totalDelta = 2
    /\ ret = PyInt(50)

-----------------------------------------------------------------------------
(* SpecNet: a caller invoking get_network_speed on a fresh monitor *)

InitNet ==
    /\ \E r \in RouteOutcomes :
          InitObjects(EmptyDict, get_active_network_interface(r))
    /\ InitLoopVars /\ InitCallVars

CallGetNetworkSpeed ==
    \E route \in RouteOutcomes, rxfile \in CounterFiles, txfile \in CounterFiles :
        LET r == get_network_speed(route, rxfile, txfile, prev_net_stats)
        IN  /\ prev_net_stats' = r.prev_net_stats
            /\ net_interface' = r.net_interface
            /\ called' = "get_network_speed"
            /\ input' = [route |-> route, rx |-> rxfile, tx |-> txfile]
            /\ before' = prev_net_stats
            /\ ret' = r.ret
            /\ exc' = r.exc
            /\ UNCHANGED <<prev_cpu_stats, mem_info, last_throttled, loopVars>>

NextNet == CallGetNetworkSpeed

SpecNet == InitNet /\ [][NextNet]_vars

\* C4: before any call the stored counters are rx = tx = 0; every
\* get_network_speed call that returns gives ((rx - prev rx) / 1024,
\* (tx - prev tx) / 1024) for the counters rx, tx it read and the counters
\* stored before it, and leaves the counters it read as the stored ones,
\* whatever they are and whichever interface was resolved.
C4_NetworkSpeed ==
    /\ called = "none" => prev_net_stats = [rx |-> 0, tx |-> 0]
    /\ (called = "get_network_speed" /\ exc = NoExc) =>
          /\ input.rx.ok /\ input.tx.ok
          /\ ret = PyTuple(<<Num(input.rx.line[1] - before.rx, 1024),
                             Num(input.tx.line[1] - before.tx, 1024)>>)
          /\ prev_net_stats = [rx |-> input.rx.line[1], tx |-> input.tx.line[1]]

\* previous {rx: 1024, tx: 2048}, current {rx: 3072, tx: 2048} read from
\* eth0: the call returned (2.0, 0.0)
C4_Witness ==
    /\ called = "get_network_speed" /\ exc = NoExc
    /\ before = [rx |-> 1024, tx |-> 2048]
    /\ prev_net_stats = [rx |-> 3072, tx |-> 2048]
    /\ net_interface = "eth0"
    /\ ret = PyTuple(<<PyInt(2), PyInt(0)>>)

-----------------------------------------------------------------------------
(* SpecPower: a caller invoking the methods of a fresh PowerMonitor *)

InitPower == InitObjects(EmptyDict, DefaultInterface) /\ InitLoopVars /\ InitCallVars

AnalyzeArgs == {PyNone} \cup {PyInt(w) : w \in ThrottledWords}

CallGetPowerStatus ==
    \E cmd \in VcgencmdOutcomes :
        LET r == get_power_status(cmd, last_throttled)
        IN  /\ last_throttled' = r.last_throttled
            /\ called' = "get_power_status"
            /\ input' = cmd
            /\ before' = last_throttled
            /\ ret' = r.ret
            /\ exc' = r.exc
            /\ UNCHANGED <<monitorVars, loopVars>>

CallGetThrottledStatus ==
    \E cmd \in VcgencmdOutcomes :
        /\ called' = "get_throttled_status"
        /\ input' = cmd
        /\ before' = last_throttled
        /\ ret' = get_throttled_status(cmd)
        /\ exc' = NoExc
        /\ UNCHANGED <<monitorVars, last_throttled, loopVars>>

CallAnalyzeThrottled ==
    \E v \in AnalyzeArgs :
        LET r == analyze_throttled(v)
        IN  /\ called' = "analyze_throttled"
            /\ input' = v
            /\ before' = last_throttled
            /\ ret' = r.ret
            /\ exc' = r.exc
            /\ UNCHANGED <<monitorVars, last_throttled, loopVars>>

NextPower == CallGetPowerStatus \/ CallGetThrottledStatus \/ CallAnalyzeThrottled

SpecPower == InitPower /\ [][NextPower]_vars

\* bit k of the non-negative integer v is set
Bit(v, k) == (v \div (2 ^ k)) % 2 = 1

\* the label the priority order Undervolt > Freq cap > Throttled >
\* Temp limit > OK gives the low four bits of v
PriorityLabel(v) ==
    IF Bit(v, 0) THEN "Undervolt"
    ELSE IF Bit(v, 1) THEN "Freq cap"
    ELSE IF Bit(v, 2) THEN "Throttled"
    ELSE IF Bit(v, 3) THEN "Temp limit"
    ELSE "OK"

\* C5 (as claimed): a get_power_status call whose read succeeds and that is
\* not the first successful read returns, without raising, the label of
\* the current-issue half of the word read: "OK" when none of its issue
\* bits is set, whatever the past-issue half.
C5_ReturnsCurrentLabel ==
    (/\ called = "get_power_status"
     /\ get_throttled_status(input) # PyNone
     /\ before # PyNone) =>
        /\ exc = NoExc
        /\ ret = PyStr(PriorityLabel(get_throttled_status(input).n % 65536))

\* C6: a get_power_status call whose read fails returns "Unable to
\* determine power status" and leaves last_throttled as it was; a call
\* whose read succeeds while nothing is stored stores the word and returns
\* "Checking status"; once a word is stored a call leaves one stored and
\* does not return "Checking status"; after any successful read
\* last_throttled is the word read.
C6_PowerColdStart ==
    called = "get_power_status" =>
        LET read == get_throttled_status(input)
        IN  /\ read = PyNone =>
                  /\ ret = PyStr("Unable to determine power status")
                  /\ exc = NoExc
                  /\ last_throttled = before
            /\ (read # PyNone /\ before = PyNone) =>
                  ret = PyStr("Checking status") /\ exc = NoExc
            /\ before # PyNone =>
                  last_throttled # PyNone /\ ret # PyStr("Checking status")
            /\ read # PyNone => last_throttled = read

\* the first successful read, of a word with issue bits in both halves
C6_Witness ==
    /\ called = "get_power_status"
    /\ before = PyNone
    /\ input = VcgencmdResult(0, <<"throttled", 5 + 65536 * 5>>)
    /\ last_throttled = PyInt(5 + 65536 * 5)
    /\ ret = PyStr("Checking status")

\* C9: analyze_throttled of a bitfield returns the label of the highest
\* priority bit set among bits 0..3 ("OK" when none is), so a lower
\* priority label is never returned while a higher priority bit is set,
\* and the bits above bit 3 do not change the result.
C9_AnalyzePriority ==
    (called = "analyze_throttled" /\ input.t = "num") =>
        /\ exc = NoExc
        /\ ret = PyStr(PriorityLabel(input.n))
        /\ ret = analyze_throttled(PyInt(input.n % 16)).ret
        /\ ret.s \in {"Undervolt", "Freq cap", "Throttled", "Temp limit", "OK"}
        /\ Bit(input.n, 0) => ret.s = "Undervolt"

\* 0b1001 with bit 4 and past-issue bits set as well: "Undervolt"
C9_Witness ==
    /\ called = "analyze_throttled"
    /\ input = PyInt(9 + 65536 * 5)
    /\ ret = PyStr("Undervolt")

-----------------------------------------------------------------------------
(* SpecGauges: a caller invoking get_ram_usage and get_disk_usage on a     *)
(* monitor constructed over any /proc/meminfo                              *)

InitGauges ==
    /\ \E f \in MemInfoFiles : InitObjects(get_memory_info(f), DefaultInterface)
    /\ InitLoopVars /\ InitCallVars

CallGetRamUsage ==
    LET r == get_ram_usage(mem_info)
    IN  /\ mem_info' = r.mem_info
        /\ called' = "get_ram_usage"
        /\ input' = NoInput
        /\ before' = PyNone
        /\ ret' = r.ret
        /\ exc' = r.exc
        /\ UNCHANGED <<prev_cpu_stats, prev_net_stats, net_interface, last_throttled,
                       loopVars>>

CallGetDiskUsage ==
    \E du \in DiskOutcomes :
        /\ called' = "get_disk_usage"
        /\ input' = du
        /\ before' = PyNone
        /\ ret' = get_disk_usage(du)
        /\ exc' = NoExc
        /\ UNCHANGED <<monitorVars, last_throttled, loopVars>>

NextGauges == CallGetRamUsage \/ CallGetDiskUsage

SpecGauges == InitGauges /\ [][NextGauges]_vars

MemTotalMissingOrZero ==
    "MemTotal" \notin DOMAIN mem_info \/ mem_info["MemTotal"] = 0

\* C7 (as claimed): get_ram_usage never raises; with MemTotal 0 or missing
\* it returns 0; with MemTotal > 0 and MemAvailable present it returns
\* (MemTotal - MemAvailable) / MemTotal * 100.
C7_RamNeverDividesByZero ==
    called = "get_ram_usage" =>
        /\ exc = NoExc
        /\ MemTotalMissingOrZero => ret = PyInt(0)
        /\ (~MemTotalMissingOrZero /\ "MemAvailable" \in DOMAIN mem_info) =>
              ret = Num(100 * (mem_info["MemTotal"] - mem_info["MemAvailable"]),
                        mem_info["MemTotal"])

-----------------------------------------------------------------------------
(* Spec: raspberry_monitor(), one action per statement of its loop body.   *)
(* Every local of the body is assigned before it is read, so the values    *)
(* left from the tick before are dead at the top of the body; the model    *)
(* forgets them there.  Each read of the system is drawn from a failure    *)
(* and a few values.                                                       *)

LoopMemInfoFiles ==
    { IOError,
      File(<< <<"MemTotal:", 2000, "kB">>, <<"MemAvailable:", 500, "kB">> >>),
      File(<< <<"MemTotal:", 0, "kB">>, <<"MemAvailable:", 0, "kB">> >>) }
LoopTemperatures == {Num(456, 10)}
LoopProcStatFiles == {IOError, File(<<"cpu", 1, 0, 0, 1>>), File(<<"cpu", 2, 0, 0, 2>>)}
LoopDiskOutcomes == {DiskRaises, DiskResult(0, 0), DiskResult(4, 1)}
LoopRouteOutcomes ==
    {RouteRaises, RouteResult(0, << <<"1.0.0.0", "via", "192.168.0.1", "dev", "eth0">> >>)}
LoopCounterFiles == {IOError, File(<<1024>>), File(<<3072>>)}
LoopVcgencmdOutcomes ==
    { VcgencmdRaises, VcgencmdResult(1, <<"">>),
      VcgencmdResult(0, <<"throttled", 0>>),
      VcgencmdResult(0, <<"throttled", 5 + 65536 * 5>>) }

Init ==
    /\ \E f \in LoopMemInfoFiles, r \in LoopRouteOutcomes :
          InitObjects(get_memory_info(f), get_active_network_interface(r))
    /\ InitLoopVars /\ InitCallVars

tickLocals == <<cpu_temp, cpu_usage, ram_usage, disk_usage, download_speed,
                upload_speed, throttled_value, power_status>>

\* the exception e leaves raspberry_monitor(): nothing catches it
Crash(e) == pc' = "crashed" /\ exc' = e

\* line 243: the top of the loop body
StartTick ==
    /\ pc = "start"
    /\ pc' = "get_cpu_temp"
    /\ cpu_temp' = Unbound /\ cpu_usage' = Unbound /\ ram_usage' = Unbound
    /\ disk_usage' = Unbound /\ download_speed' = Unbound /\ upload_speed' = Unbound
    /\ throttled_value' = Unbound /\ power_status' = Unbound
    /\ canvas' = << >>
    /\ input' = NoInput
    /\ UNCHANGED <<monitorVars, last_throttled, device, called, before, ret, exc>>

\* line 244: the sensor read is taken to return a temperature
LoopGetCpuTemp ==
    /\ pc = "get_cpu_temp"
    /\ \E t \in LoopTemperatures : cpu_temp' = t
    /\ pc' = "get_cpu_usage"
    /\ UNCHANGED <<monitorVars, last_throttled, cpu_usage, ram_usage, disk_usage,
                   download_speed, upload_speed, throttled_value, power_status,
                   canvas, device, callVars, exc>>

\* line 245
LoopGetCpuUsage ==
    /\ pc = "get_cpu_usage"
    /\ \E file \in LoopProcStatFiles :
          LET r == get_cpu_usage(file, prev_cpu_stats)
          IN  /\ input' = [read |-> "/proc/stat", outcome |-> file]
              /\ prev_cpu_stats' = r.prev_cpu_stats
              /\ IF r.exc = NoExc
                 THEN cpu_usage' = r.ret /\ pc' = "get_ram_usage" /\ exc' = exc
                 ELSE cpu_usage' = cpu_usage /\ Crash(r.exc)
    /\ UNCHANGED <<prev_net_stats, mem_info, net_interface, last_throttled, cpu_temp,
                   ram_usage, disk_usage, download_speed, upload_speed,
                   throttled_value, power_status, canvas, device, called, before, ret>>

\* line 246
LoopGetRamUsage ==
    /\ pc = "get_ram_usage"
    /\ LET r == get_ram_usage(mem_info)
       IN  /\ mem_info' = r.mem_info
           /\ IF r.exc = NoExc
              THEN ram_usage' = r.ret /\ pc' = "get_disk_usage" /\ exc' = exc
              ELSE ram_usage' = ram_usage /\ Crash(r.exc)
    /\ UNCHANGED <<prev_cpu_stats, prev_net_stats, net_interface, last_throttled,
                   cpu_temp, cpu_usage, disk_usage, download_speed, upload_speed,
                   throttled_value, power_status, canvas, device, callVars>>

\* line 247
LoopGetDiskUsage ==
    /\ pc = "get_disk_usage"
    /\ \E du \in LoopDiskOutcomes :
          /\ input' = [read |-> "disk_usage", outcome |-> du]
          /\ disk_usage' = get_disk_usage(du)
    /\ pc' = "get_network_speed"
    /\ UNCHANGED <<monitorVars, last_throttled, cpu_temp, cpu_usage, ram_usage,
                   download_speed, upload_speed, throttled_value, power_status,
                   canvas, device, called, before, ret, exc>>

\* line 248
LoopGetNetworkSpeed ==
    /\ pc = "get_network_speed"
    /\ \E route \in LoopRouteOutcomes, rxfile \in LoopCounterFiles,
          txfile \in LoopCounterFiles :
          LET r == get_network_speed(route, rxfile, txfile, prev_net_stats)
          IN  /\ input' = [read |-> "statistics",
                           outcome |-> [route |-> route, rx |-> rxfile, tx |-> txfile]]
              /\ prev_net_stats' = r.prev_net_stats
              /\ net_interface' = r.net_interface
              /\ IF r.exc = NoExc
                 THEN /\ download_speed' = r.ret.v[1]
                      /\ upload_speed' = r.ret.v[2]
                      /\ pc' = "get_throttled_status"
                      /\ exc' = exc
                 ELSE /\ UNCHANGED <<download_speed, upload_speed>>
                      /\ Crash(r.exc)
    /\ UNCHANGED <<prev_cpu_stats, mem_info, last_throttled, cpu_temp, cpu_usage,
                   ram_usage, disk_usage, throttled_value, power_status, canvas,
                   device, called, before, ret>>

\* line 249
LoopGetThrottledStatus ==
    /\ pc = "get_throttled_status"
    /\ \E cmd \in LoopVcgencmdOutcomes :
          /\ input' = [read |-> "vcgencmd", outcome |-> cmd]
          /\ throttled_value' = get_throttled_status(cmd)
    /\ pc' = "analyze_throttled"
    /\ UNCHANGED <<monitorVars, last_throttled, cpu_temp, cpu_usage, ram_usage,
                   disk_usage, download_speed, upload_speed, power_status, canvas,
                   device, called, before, ret, exc>>

\* line 250: the raw word, or None, goes to analyze_throttled as it is
LoopAnalyzeThrottled ==
    /\ pc = "analyze_throttled"
    /\ LET r == analyze_throttled(throttled_value)
       IN  IF r.exc = NoExc
           THEN power_status' = r.ret /\ pc' = "update_display" /\ exc' = exc
           ELSE power_status' = power_status /\ Crash(r.exc)
    /\ UNCHANGED <<monitorVars, last_throttled, cpu_temp, cpu_usage, ram_usage,
                   disk_usage, download_speed, upload_speed, throttled_value,
                   canvas, device, callVars>>

\* line 252
LoopUpdateDisplay ==
    /\ pc = "update_display"
    /\ LET r == update_display(cpu_temp, cpu_usage, ram_usage, disk_usage,
                               download_speed, power_status, device)
       IN  /\ canvas' = r.canvas
           /\ device' = r.device
           /\ IF r.exc = NoExc
              THEN pc' = "sleep" /\ exc' = exc
              ELSE Crash(r.exc)
    /\ UNCHANGED <<monitorVars, last_throttled, tickLocals, callVars>>

\* lines 254-255: sleep out the rest of the second, then loop
LoopSleep ==
    /\ pc = "sleep"
    /\ pc' = "start"
    /\ UNCHANGED <<monitorVars, last_throttled, tickLocals, canvas, device,
                   callVars, exc>>

Next ==
    \/ StartTick
    \/ LoopGetCpuTemp
    \/ LoopGetCpuUsage
    \/ LoopGetRamUsage
    \/ LoopGetDiskUsage
    \/ LoopGetNetworkSpeed
    \/ LoopGetThrottledStatus
    \/ LoopAnalyzeThrottled
    \/ LoopUpdateDisplay
    \/ LoopSleep

Spec == Init /\ [][Next]_vars

\* the uncaught exception was raised where the loop consumes a read that
\* failed in this tick: deltas[3] on the empty sample of an unreadable
\* /proc/stat (line 79), int('') on an unreadable counter file (lines 46,
\* 47), None & 0x1 on a failed throttled query (line 178), BAR_WIDTH * None
\* on a failed disk query (line 210)
CrashFromReadFailure ==
    \/ exc.line = 79 /\ input.read = "/proc/stat" /\ ~input.outcome.ok
    \/ exc.line = 46 /\ input.read = "statistics" /\ ~input.outcome.rx.ok
    \/ exc.line = 47 /\ input.read = "statistics" /\ ~input.outcome.tx.ok
    \/ exc.line = 178 /\ throttled_value = PyNone
    \/ exc.line = 210 /\ disk_usage = PyNone

\* no other read of the tick failed: an unreadable /proc/stat that did not
\* raise left the empty sample in prev_cpu_stats, a failed disk query left
\* disk_usage None, and a failed counter or throttled read would have
\* raised before the line that did
OnlyOneReadFailed ==
    \/ exc.line = 79
    \/ /\ prev_cpu_stats # PyList(<< >>)
       /\ exc.line = 210 \/ disk_usage # PyNone

\* C1 (as claimed): the failure of a single read within a tick does not
\* propagate out of the tick; the loop goes on to the display update, the
\* sleep and the next tick.
C1_ReadFailureStaysInTick ==
    pc = "crashed" => ~(CrashFromReadFailure /\ OnlyOneReadFailed)

\* the operations update_display drew for the disk row: the bar at y = 26
\* and the percentage at (100, 24)
DiskRowDrawn(image) ==
    \E i \in 1..Len(image) :
        \/ image[i].op = "rectangle" /\ image[i].y0 = 26
        \/ image[i].op = "text" /\ image[i].x = 100 /\ image[i].y = 24

\* C8: get_disk_usage returns None, not a number, when the query fails,
\* and used / total * 100 (0 when total is 0) when it succeeds; in a tick
\* whose disk_usage is None nothing of the disk row is drawn on the canvas
\* and no image reaches the device.
C8_DiskUnavailable ==
    /\ (pc = "get_network_speed" /\ input.outcome.raised) => disk_usage = PyNone
    /\ (pc = "get_network_speed" /\ ~input.outcome.raised) =>
          disk_usage = IF input.outcome.total = 0 THEN PyInt(0)
                       ELSE Num(100 * input.outcome.used, input.outcome.total)
    /\ disk_usage = PyNone => ~DiskRowDrawn(canvas) /\ pc # "sleep"

\* update_display ran with disk_usage None: the CPU and RAM bars are on the
\* canvas, the disk bar raised TypeError
C8_Witness ==
    /\ disk_usage = PyNone
    /\ exc = Raise("TypeError", 210)
    /\ Len(canvas) = 4

\* the RAM percentage on an image: update_display's fourth text
RamText(image) == image[10].text

\* C10: no step of the loop changes mem_info, and whenever the loop has
\* computed ram_usage while the device shows the image of an earlier tick,
\* the value is the one that image shows.
C10_MemInfoSnapshot ==
    [][/\ mem_info' = mem_info
       /\ (pc = "get_ram_usage" /\ pc' = "get_disk_usage" /\ device # << >>) =>
             RamText(device) = Format0f(ram_usage') \o " %"]_vars

\* a later tick has computed ram_usage 75 again, for MemTotal 2000 and
\* MemAvailable 500, under the image of an earlier tick
C10_Witness ==
    /\ pc = "get_disk_usage"
    /\ device # << >>
    /\ mem_info = get_memory_info(
           File(<< <<"MemTotal:", 2000, "kB">>, <<"MemAvailable:", 500, "kB">> >>))
    /\ ram_usage = PyInt(75)
    /\ RamText(device) = "75 %"

=============================================================================
